---- MODULE Spec2Model ----
(***************************************************************************)
(* Model of thetadata-mcp: the tier extractor (src/subscription.py), the   *)
(* request/response transform installed on the HTTP client, the component  *)
(* customisation and the start-up configuration (src/server.py) and the    *)
(* documentation generator (src/generate_endpoint_docs.py).                *)
(***************************************************************************)
EXTENDS Integers, Sequences, FiniteSets, TLC

VARIABLES
    openapi_spec,   \* the specification document handed to the tier extractor
    route_path,     \* the path the extractor was last asked about
    tier_out,       \* outcome of the last extract_tier_from_spec call
    component,      \* the component last handed to customize_components
    pc,             \* position of one handle_async_request call
    now,            \* the system clock's date, as an index into Days
    request,        \* the request handed to the transform
    params,         \* the handler's local mapping `params` after line 103
    modified,       \* the handler's local flag `modified`
    dispatched,     \* the request handed on to the wrapped transport
    response,       \* the response the wrapped transport produced
    fault,          \* the step of the unwrap that raises for this response
    returned,       \* what the caller of the transform receives
    pc_main,        \* position of one run of the documentation generator
    yaml_spec,      \* the specification document the generator loads
    tiers_arg,      \* the value of the --tiers option
    endpoints_by_tier,  \* main's local of that name
    files,          \* the endpoints_<tier>.md files of the output directory
    console,        \* the per-tier lines printed by main
    total,          \* the grand total printed by main
    pc_server,      \* position of one start of the server
    argv,           \* the --base-url and --timeout options of the command line
    environ,        \* THETADATA_BASE_URL and THETADATA_TIMEOUT of the environment
    client,         \* base_url and timeout of the httpx.AsyncClient constructed
    transport_arg   \* the transport handed to mcp.run

tierVars == <<openapi_spec, route_path, tier_out, component>>

transportVars == <<pc, now, request, params, modified, dispatched, response, fault, returned>>

mainVars == <<pc_main, yaml_spec, tiers_arg, endpoints_by_tier, files, console, total>>

serverVars == <<pc_server, argv, environ, client, transport_arg>>

vars == <<tierVars, transportVars, mainVars, serverVars>>

----------------------------------------------------------------------------
(* Python values as they come out of yaml.safe_load.  A value stored under *)
(* a key of the document is a mapping, null, a string or a list.           *)

\* The largest number of method keys a path item of the model carries.
MaxOps == 2

Tiers == {"free", "value", "standard", "professional"}

Methods == {"get", "post", "put", "delete", "patch"}

NoTier == "-"

PathNames == {"/stock/list/symbols", "/option/list/symbols"}

\* An operation (the value under a method key).  `has` is the truth value of
\* the Python test `"x-min-subscription" in operation` where that test is
\* defined: key membership for a mapping, substring for a string, element
\* membership for a list.  `tier` is the value under the key of a mapping.
NoOp == [kind |-> "null", has |-> FALSE, tier |-> NoTier]

Operations ==
    { [kind |-> "dict", has |-> FALSE, tier |-> NoTier] }
    \cup { [kind |-> "dict", has |-> TRUE, tier |-> t] : t \in Tiers }
    \cup { NoOp }
    \cup { [kind |-> k, has |-> h, tier |-> NoTier] : k \in {"str", "list"}, h \in BOOLEAN }

MethodSets == { ms \in SUBSET Methods : Cardinality(ms) <= MaxOps }

PathTiers == { <<FALSE, NoTier>> } \cup { <<TRUE, t>> : t \in Tiers }

\* A path item (the value under a key of `paths`).  `members` is the set of
\* method names m for which the Python test `m in path_item` is true; `ops[m]`
\* is the value under key m of a mapping (NoOp fills the other slots).
DictItem(ht, ms, g) ==
    [kind |-> "dict", has |-> ht[1], tier |-> ht[2], members |-> ms,
     ops |-> [m \in Methods |-> IF m \in ms THEN g[m] ELSE NoOp]]

\* A path item that is null, a string or a list.
MalformedItem(k, h, ms) ==
    [kind |-> k, has |-> (k # "null" /\ h), tier |-> NoTier,
     members |-> IF k = "null" THEN {} ELSE ms,
     ops |-> [m \in Methods |-> NoOp]]

\* A second, fixed entry of `paths`, next to the entry under study.
OtherItem == DictItem(<<TRUE, "professional">>, {}, <<>>)

DocShapes == {"no paths key", "empty", "one entry", "two entries"}

\* The specification document of a given shape whose entry under p is item.
Document(shape, p, item) ==
    CASE shape = "no paths key" -> [has_paths |-> FALSE, paths |-> <<>>]
      [] shape = "empty" -> [has_paths |-> TRUE, paths |-> <<>>]
      [] shape = "one entry" -> [has_paths |-> TRUE, paths |-> [q \in {p} |-> item]]
      [] shape = "two entries" ->
            [has_paths |-> TRUE,
             paths |-> [q \in PathNames |-> IF q = p THEN item ELSE OtherItem]]

----------------------------------------------------------------------------
(* src/subscription.py *)

\* Outcomes of a call: a returned value, a returned None, a raised TypeError.
Returned(v) == [kind |-> "value", val |-> v]
ReturnedNone == [kind |-> "None", val |-> NoTier]
Raised == [kind |-> "TypeError", val |-> NoTier]
NotCalled == [kind |-> "idle", val |-> NoTier]

MethodOrder == <<"get", "post", "put", "delete", "patch">>

\* `"x-min-subscription" in v` then `v["x-min-subscription"]`, on a value for
\* which the membership test is true: a string or a list cannot be indexed
\* by a string.
Subscript(v) == IF v.kind = "dict" THEN Returned(v.tier) ELSE Raised

RECURSIVE ScanMethods(_, _)
ScanMethods(path_item, i) ==
    IF i > Len(MethodOrder) THEN ReturnedNone
    ELSE LET method == MethodOrder[i] IN
         IF method \notin path_item.members THEN ScanMethods(path_item, i + 1)
         ELSE IF path_item.kind # "dict" THEN Raised
         ELSE LET operation == path_item.ops[method] IN
              IF operation.kind = "null" THEN Raised
              ELSE IF operation.has THEN Subscript(operation)
              ELSE ScanMethods(path_item, i + 1)

extract_tier_operation_first(spec, path) ==
    LET paths == IF spec.has_paths THEN spec.paths ELSE <<>> IN
    IF path \notin DOMAIN paths THEN ReturnedNone
    ELSE LET path_item == paths[path]
             scan == ScanMethods(path_item, 1) IN
         IF path_item.kind = "null" THEN Raised
         ELSE IF scan.kind = "None" /\ path_item.has THEN Subscript(path_item)
         ELSE scan

extract_tier_from_spec(spec, path) ==
    LET paths == IF spec.has_paths THEN spec.paths ELSE <<>> IN
    IF path \notin DOMAIN paths THEN ReturnedNone
    ELSE LET path_item == paths[path] IN
         IF path_item.kind = "null" THEN Raised
         ELSE IF path_item.has THEN Subscript(path_item)
         ELSE ScanMethods(path_item, 1)

----------------------------------------------------------------------------
(* src/subscription.py: get_tier_tag, and src/server.py:                   *)
(* customize_components.  A tag and a description are strings, written as  *)
(* sequences of tokens.                                                    *)

\* Truth value of `tier`: None and the empty string are false.
TruthyTier(tier) == tier.kind = "value" /\ tier.val # ""

get_tier_tag_unconditional(tier) == <<"tier:", tier.val>>

get_tier_tag(tier) ==
    IF TruthyTier(tier) THEN <<"tier:", tier.val>> ELSE <<"tier:", "unknown">>

\* str.upper on the tier names of the model.
upper(str) ==
    CASE str = "free" -> "FREE"
      [] str = "value" -> "VALUE"
      [] str = "standard" -> "STANDARD"
      [] str = "professional" -> "PROFESSIONAL"
      [] OTHER -> str

\* The table short_descriptions, cut down to one operation id.
short_descriptions ==
    [n \in {"stock_list_symbols"} |-> <<"List all traded stock symbols. Updated overnight.">>]

NoDescription == <<"None">>

\* The components the framework hands over: tools, named after the operation
\* id, with the description of the specification (or none), an output schema
\* and a parameter schema that lists `format`.
Components ==
    [name : {"stock_list_symbols", "vendor_custom_op"},
     description : {NoDescription, <<"Verbose text of the specification.">>},
     tags : {{}},
     output_schema : {"schema"},
     properties : {{"symbol", "format"}},
     required : {{"symbol", "format"}}]

NoComponent ==
    [name |-> "-", description |-> NoDescription, tags |-> {},
     output_schema |-> "-", properties |-> {}, required |-> {}]

\* Lines 291-317 on a component, for a tier the extractor returned.
Customized(comp, tier) ==
    LET tag == get_tier_tag(tier)
        op_id == comp.name
        desc == IF op_id \in DOMAIN short_descriptions THEN short_descriptions[op_id]
                ELSE IF comp.description = NoDescription THEN <<>>
                ELSE comp.description
    IN  [name |-> comp.name,
         description |-> IF TruthyTier(tier)
                         THEN <<"[", upper(tier.val), "] ">> \o desc
                         ELSE desc,
         tags |-> comp.tags \cup {tag},
         output_schema |-> "None",
         properties |-> comp.properties \ {"format"},
         required |-> comp.required \ {"format"}]

----------------------------------------------------------------------------
(* src/server.py: DateTransformTransport.handle_async_request, request     *)
(* phase.  A string is a sequence of tokens; a token is a run of           *)
(* characters that the URL quoting leaves alone, or one character that it  *)
(* rewrites, or one %XX escape.                                            *)

\* The largest number of key=value pairs in a query string of the model.
MaxParams == 3

Days == <<"2024-01-04", "2024-01-05", "2024-01-06">>

Clock == { d \in DOMAIN Days : d - 1 \in DOMAIN Days }

\* (datetime.now() - timedelta(days=1)).strftime("%Y-%m-%d")
yesterday(today) == <<Days[today - 1]>>

\* urllib.parse.unquote_plus, token by token.
UnquoteToken(t) ==
    CASE t = "+" -> " "
      [] t = "%20" -> " "
      [] t = "%5B" -> "["
      [] t = "%5D" -> "]"
      [] t = "%27" -> "'"
      [] t = "%22" -> "\""
      [] t = "%2C" -> ","
      [] OTHER -> t

unquote_plus(str) == [i \in DOMAIN str |-> UnquoteToken(str[i])]

\* urllib.parse.quote_plus, token by token.
QuoteToken(t) ==
    CASE t = " " -> "+"
      [] t = "[" -> "%5B"
      [] t = "]" -> "%5D"
      [] t = "'" -> "%27"
      [] t = "\"" -> "%22"
      [] t = "," -> "%2C"
      [] OTHER -> t

quote_plus(str) == [i \in DOMAIN str |-> QuoteToken(str[i])]

\* repr() of a str: single quotes, double quotes when the string holds a
\* single quote.
Repr(str) ==
    IF \E i \in DOMAIN str : str[i] = "'"
    THEN <<"\"">> \o str \o <<"\"">>
    ELSE <<"'">> \o str \o <<"'">>

\* str() of a list of str: "[" + ", ".join(repr(x)) + "]".
RECURSIVE JoinReprs(_)
JoinReprs(vals) ==
    IF Len(vals) = 1 THEN Repr(vals[1])
    ELSE Repr(vals[1]) \o <<",", " ">> \o JoinReprs(Tail(vals))

StrOfList(vals) == <<"[">> \o JoinReprs(vals) \o <<"]">>

\* The index of key in an insertion-ordered dict, 0 when it is no key.
IndexOf(d, key) ==
    IF \E i \in DOMAIN d : d[i].key = key
    THEN CHOOSE i \in DOMAIN d : d[i].key = key
    ELSE 0

\* parse_qs(query, keep_blank_values=True): key -> list of decoded values, the
\* keys in the order of their first occurrence.  The keys of the model are
\* made of characters the quoting leaves alone.
RECURSIVE ParseInto(_, _)
ParseInto(query, d) ==
    IF query = <<>> THEN d
    ELSE LET name == Head(query).k
             value == unquote_plus(Head(query).v)
             i == IndexOf(d, name)
         IN  ParseInto(Tail(query),
                 IF i = 0 THEN Append(d, [key |-> name, vals |-> <<value>>])
                 ELSE [d EXCEPT ![i].vals = Append(@, value)])

parse_qs(query) == ParseInto(query, <<>>)

\* {k: v[0] if len(v) == 1 else v for k, v in params.items()}
Collapse(d) ==
    [i \in DOMAIN d |-> [key |-> d[i].key, list |-> Len(d[i].vals) # 1, vals |-> d[i].vals]]

\* A str as a value of params.
Scalar(str) == [list |-> FALSE, vals |-> <<str>>]

Has(prm, key) == IndexOf(prm, key) # 0

Get(prm, key) ==
    LET e == prm[IndexOf(prm, key)] IN [list |-> e.list, vals |-> e.vals]

\* params[key] = v
Set(prm, key, v) ==
    LET i == IndexOf(prm, key)
        e == [key |-> key, list |-> v.list, vals |-> v.vals]
    IN  IF i = 0 THEN Append(prm, e) ELSE [prm EXCEPT ![i] = e]

\* urlencode(params), doseq=False: a value that is no str goes through str().
urlencode(prm) ==
    [i \in DOMAIN prm |->
        [k |-> prm[i].key,
         v |-> quote_plus(IF prm[i].list THEN StrOfList(prm[i].vals)
                          ELSE prm[i].vals[1])]]

\* Lines 75-95: the date defaults.
DatesIgnoringEnd(prm, today) ==
    IF ~Has(prm, "start_date")
    THEN [params |-> Set(Set(prm, "start_date", Scalar(yesterday(today))),
                         "end_date", Scalar(yesterday(today))),
          modified |-> TRUE]
    ELSE [params |-> Set(prm, "end_date", Get(prm, "start_date")),
          modified |-> TRUE]

NormalizeDates(prm, today) ==
    LET has_start == Has(prm, "start_date")
        has_end == Has(prm, "end_date")
    IN  IF ~has_start /\ ~has_end
        THEN [params |-> Set(Set(prm, "start_date", Scalar(yesterday(today))),
                             "end_date", Scalar(yesterday(today))),
              modified |-> TRUE]
        ELSE IF has_start /\ ~has_end
        THEN [params |-> Set(prm, "end_date", Get(prm, "start_date")),
              modified |-> TRUE]
        ELSE IF has_end /\ ~has_start
        THEN [params |-> Set(prm, "start_date", Get(prm, "end_date")),
              modified |-> TRUE]
        ELSE [params |-> prm, modified |-> FALSE]

\* Lines 97-103: the format default and the rewrite of the legacy token.
NormalizeFormat(prm) ==
    IF ~Has(prm, "format")
    THEN [params |-> Set(prm, "format", Scalar(<<"json_new">>)), modified |-> TRUE]
    ELSE IF Get(prm, "format") = Scalar(<<"json">>)
    THEN [params |-> Set(prm, "format", Scalar(<<"json_new">>)), modified |-> TRUE]
    ELSE [params |-> prm, modified |-> FALSE]

\* Lines 105-117: the request rebuilt around the new query string, a new
\* httpx.Request object, or the caller's own request object.
AlwaysRebuild(req, prm, flag) ==
    [object |-> "new", method |-> req.method, path |-> req.path,
     query |-> urlencode(prm), content |-> req.content]

Rebuild(req, prm, flag) ==
    IF flag
    THEN [object |-> "new", method |-> req.method, path |-> req.path,
          query |-> urlencode(prm), content |-> req.content]
    ELSE req

\* Lines 69-117: the request phase; the request to dispatch and `modified`.
RewriteRequest(req, today) ==
    LET prm == Collapse(parse_qs(req.query))
        dates == NormalizeDates(prm, today)
        format == NormalizeFormat(dates.params)
        flag == dates.modified \/ format.modified
    IN  [request |-> Rebuild(req, format.params, flag), params |-> format.params,
         modified |-> flag]

----------------------------------------------------------------------------
(* src/server.py: DateTransformTransport.handle_async_request, response    *)
(* phase.                                                                  *)

\* Parsed JSON data: its type, its keys (of a mapping) or string elements
\* (of a list), and the name of the value stored under "response".
NoSub == "-"

JsonDict(keys, sub) == [type |-> "dict", keys |-> keys, sub |-> sub]
JsonList(elems) == [type |-> "list", keys |-> elems, sub |-> NoSub]
JsonScalar == [type |-> "scalar", keys |-> {}, sub |-> NoSub]

\* The values a body of the model stores under "response".
SubValue(name) ==
    CASE name = "{a:1}" -> JsonDict({"a"}, NoSub)
      [] name = "[]" -> JsonList({})
      [] OTHER -> JsonScalar

SubNames == {"{a:1}", "[]"}

\* A body: JSON text with the separators it was written with, or bytes that
\* are no JSON.
JsonText(style, data) == [valid |-> TRUE, style |-> style, data |-> data]
NotJson == [valid |-> FALSE, style |-> "-", data |-> JsonScalar]

\* json.loads(body): the data, or a raised ValueError.
json_loads(body) == [raised |-> ~body.valid, data |-> body.data]

\* json.dumps(data).encode(): the separators are ", " and ": ".
json_dumps(data) == JsonText("default", data)

IsEnvelopeAnySize(data) ==
    data.type = "dict" /\ "response" \in data.keys

\* isinstance(data, dict) and "response" in data and len(data) == 1
IsEnvelope(data) ==
    data.type = "dict" /\ "response" \in data.keys /\ Cardinality(data.keys) = 1

\* "json" in content_type
ContentTypes == {"application/json", "text/csv", ""}

JsonInContentType(content_type) == content_type = "application/json"

\* What the caller receives: the transport's response object or a new one.
Original(resp) ==
    [object |-> "original", status_code |-> resp.status_code,
     headers |-> resp.headers, content |-> resp.content]

NewResponse(status_code, headers, content) ==
    [object |-> "new", status_code |-> status_code, headers |-> headers,
     content |-> content]

Propagated == [object |-> "exception", status_code |-> 0, headers |-> "", content |-> NotJson]

NothingYet == [object |-> "-", status_code |-> 0, headers |-> "", content |-> NotJson]

Faults == {"none", "aread", "Response"}

\* Lines 121-140 with the try/except removed.
UnwrapUnguarded(resp, flt) ==
    IF JsonInContentType(resp.headers)
    THEN IF flt = "aread" THEN Propagated
         ELSE LET parsed == json_loads(resp.content) IN
              IF parsed.raised THEN Propagated
              ELSE IF IsEnvelope(parsed.data)
              THEN IF flt = "Response" THEN Propagated
                   ELSE NewResponse(resp.status_code, resp.headers,
                                    json_dumps(SubValue(parsed.data.sub)))
              ELSE Original(resp)
    ELSE Original(resp)

\* Lines 121-140: flt names the step that raises, if any (reading the body
\* or building the new response); json.loads raises on bytes that are no JSON.
Unwrap(resp, flt) ==
    IF JsonInContentType(resp.headers)
    THEN IF flt = "aread" THEN Original(resp)
         ELSE LET parsed == json_loads(resp.content) IN
              IF parsed.raised THEN Original(resp)
              ELSE IF IsEnvelope(parsed.data)
              THEN IF flt = "Response" THEN Original(resp)
                   ELSE NewResponse(resp.status_code, resp.headers,
                                    json_dumps(SubValue(parsed.data.sub)))
              ELSE Original(resp)
    ELSE Original(resp)

----------------------------------------------------------------------------
(* One call of handle_async_request around the wrapped transport. *)

QueryKeys == {"start_date", "end_date", "format", "symbol"}

\* The raw values a query string of the model gives to a key.
RawValues(key) ==
    CASE key = "start_date" -> {<<"2024-01-05">>, <<"2024-01-09">>}
      [] key = "end_date" -> {<<"2024-01-05">>, <<"2024-01-09">>}
      [] key = "format" -> {<<"json">>, <<"csv">>}
      [] key = "symbol" -> {<<"BRK", "%20", "B">>}

QueryPairs == UNION { { [k |-> key, v |-> val] : val \in RawValues(key) } : key \in QueryKeys }

Queries == UNION { [1..n -> QueryPairs] : n \in 0..MaxParams }

Requests ==
    { [object |-> "original", method |-> "GET", path |-> "/v3/stock/history/eod",
       query |-> q, content |-> ""] :
        q \in Queries }

NoRequest == [object |-> "-", method |-> "-", path |-> "-", query |-> <<>>, content |-> ""]

Bodies ==
    { NotJson, JsonText("compact", JsonList({"response"})) }
    \cup { JsonText("compact", JsonDict(ks, IF "response" \in ks THEN sub ELSE NoSub)) :
            ks \in {{"response"}, {"response", "b"}, {"a"}}, sub \in SubNames }

StatusCodes == {200, 404}

Responses ==
    { [status_code |-> sc, headers |-> ct, content |-> b] :
        sc \in StatusCodes, ct \in ContentTypes, b \in Bodies }

NoResponse == [status_code |-> 0, headers |-> "", content |-> NotJson]

NoPath == "-"

----------------------------------------------------------------------------
(* src/generate_endpoint_docs.py *)

\* The largest number of entries of `paths` in a document given to main.
MaxDocPaths == 2

DocPaths == {"/option/list/symbols", "/stock/list/symbols", "/unknown-category/x"}

\* The order of the path strings under Python's string comparison.
PathsAscending == <<"/option/list/symbols", "/stock/list/symbols", "/unknown-category/x">>

PathBefore(p, q) ==
    \E i, j \in DOMAIN PathsAscending :
        PathsAscending[i] = p /\ PathsAscending[j] = q /\ i < j

\* path.strip("/").split("/")[0]
FirstSegment(path) ==
    CASE path = "/option/list/symbols" -> "option"
      [] path = "/stock/list/symbols" -> "stock"
      [] path = "/unknown-category/x" -> "unknown-category"

\* str.capitalize()
Capitalize(str) ==
    CASE str = "option" -> "Option"
      [] str = "stock" -> "Stock"
      [] str = "unknown-category" -> "Unknown-category"
      [] str = "free" -> "Free"
      [] str = "value" -> "Value"
      [] str = "standard" -> "Standard"
      [] str = "professional" -> "Professional"

\* str.upper() of a method name.
Upper(method) ==
    CASE method = "get" -> "GET"
      [] method = "post" -> "POST"
      [] method = "put" -> "PUT"
      [] method = "delete" -> "DELETE"
      [] method = "patch" -> "PATCH"

\* The summary and the description of the operation under a method key: the
\* operations of the model differ in their tier annotation only.
Summary(method) == IF method = "get" THEN "List symbols" ELSE ""

Description(method) == IF method = "post" THEN "  Create a symbol.\nAdmin only." ELSE ""

\* description.strip().split("\n")[0][:80]
FirstLine80(description) ==
    IF description = "  Create a symbol.\nAdmin only." THEN "Create a symbol." ELSE description

\* Lines 50-56.
DisplayName(method) ==
    IF Summary(method) # "" THEN Summary(method)
    ELSE FirstLine80(Description(method))

\* Lines 40-64: the operations of a path item that is a mapping.
RECURSIVE OperationsFrom(_, _)
OperationsFrom(path_item, i) ==
    IF i > Len(MethodOrder) THEN <<>>
    ELSE LET method == MethodOrder[i]
             operation == path_item.ops[method]
             tier == IF path_item.has THEN path_item.tier ELSE NoTier
         IN  (IF method \in path_item.members /\ operation.kind = "dict"
              THEN << [method |-> Upper(method),
                       tier |-> IF operation.has THEN operation.tier ELSE tier,
                       summary |-> DisplayName(method)] >>
              ELSE <<>>)
             \o OperationsFrom(path_item, i + 1)

\* Lines 66-74: a path item with a tier and no operation counts as one GET.
OperationsOf(path_item) ==
    LET operations == OperationsFrom(path_item, 1) IN
    IF operations = <<>> /\ path_item.has
    THEN << [method |-> "GET", tier |-> path_item.tier, summary |-> ""] >>
    ELSE operations

\* Lines 76-85: the records one path adds to the bucket of a tier.
RECURSIVE RecordsFor(_, _, _)
RecordsFor(path, ops, tier) ==
    IF ops = <<>> THEN <<>>
    ELSE (IF Head(ops).tier # NoTier /\ Head(ops).tier = tier
          THEN << [path |-> path, method |-> Head(ops).method,
                   summary |-> Head(ops).summary] >>
          ELSE <<>>)
         \o RecordsFor(path, Tail(ops), tier)

\* Lines 34-85 for one tier: the entries of `paths` are visited in ascending
\* path order (generate_markdown sorts by path, so the order of the entries
\* reaches no file).
RECURSIVE Bucket(_, _, _)
Bucket(spec, tier, i) ==
    IF i > Len(PathsAscending) THEN <<>>
    ELSE LET path == PathsAscending[i] IN
         (IF path \in DOMAIN spec.paths /\ spec.paths[path].kind = "dict"
          THEN RecordsFor(path, OperationsOf(spec.paths[path]), tier)
          ELSE <<>>)
         \o Bucket(spec, tier, i + 1)

\* Tier -> list of endpoint records; a tier is a key when its list is not empty.
extract_endpoints_by_tier(spec) == [tier \in Tiers |-> Bucket(spec, tier, 1)]

category_order == <<"Stock", "Option", "Index", "Calendar">>

\* sorted(categories[category], key=lambda x: x["path"]): a stable sort.
RECURSIVE SortedByPath(_)
SortedByPath(endpoints) ==
    IF endpoints = <<>> THEN <<>>
    ELSE LET first == CHOOSE i \in DOMAIN endpoints :
                        /\ \A j \in DOMAIN endpoints :
                             ~PathBefore(endpoints[j].path, endpoints[i].path)
                        /\ \A j \in 1..(i - 1) : endpoints[j].path # endpoints[i].path
             rest == [j \in 1..(Len(endpoints) - 1) |->
                        IF j < first THEN endpoints[j] ELSE endpoints[j + 1]]
         IN  <<endpoints[first]>> \o SortedByPath(rest)

InCategory(endpoints, category) ==
    SelectSeq(endpoints, LAMBDA ep : Capitalize(FirstSegment(ep.path)) = category)

\* Lines 131-138: the bullet of an endpoint shows its path and its summary.
Bullets(endpoints) ==
    [i \in DOMAIN endpoints |-> [path |-> endpoints[i].path, summary |-> endpoints[i].summary]]

RECURSIVE Sections(_, _)
Sections(endpoints, i) ==
    IF i > Len(category_order) THEN <<>>
    ELSE LET category == category_order[i]
             mine == InCategory(endpoints, category)
         IN  (IF mine = <<>> THEN <<>>
              ELSE << [category |-> category, bullets |-> Bullets(SortedByPath(mine))] >>)
             \o Sections(endpoints, i + 1)

\* Lines 90-142: the heading and the sections of a document.
generate_markdown(tier, endpoints) ==
    [title |-> Capitalize(tier), sections |-> Sections(endpoints, 1)]

NoFile == [title |-> "-", sections |-> <<>>]

tier_hierarchy == <<"free", "value", "standard", "professional">>

\* Lines 183-194 with the documents built from each tier's own endpoints.
RECURSIVE OwnEndpointsLoop(_, _, _)
OwnEndpointsLoop(by_tier, i, acc) ==
    IF i > Len(tier_hierarchy) THEN acc
    ELSE LET tier == tier_hierarchy[i] IN
         IF by_tier[tier] # <<>>
         THEN OwnEndpointsLoop(by_tier, i + 1,
                  [cumulative |-> acc.cumulative \o by_tier[tier],
                   files |-> [acc.files EXCEPT ![tier] =
                                generate_markdown(tier, by_tier[tier])],
                   console |-> Append(acc.console,
                                [tier |-> tier, generated |-> TRUE,
                                 count |-> Len(acc.cumulative \o by_tier[tier])])])
         ELSE OwnEndpointsLoop(by_tier, i + 1,
                  [acc EXCEPT !.console =
                      Append(@, [tier |-> tier, generated |-> FALSE, count |-> 0])])

\* Lines 183-194: the loop over tier_hierarchy.
RECURSIVE TierLoop(_, _, _)
TierLoop(by_tier, i, acc) ==
    IF i > Len(tier_hierarchy) THEN acc
    ELSE LET tier == tier_hierarchy[i] IN
         IF by_tier[tier] # <<>>
         THEN LET cumulative_endpoints == acc.cumulative \o by_tier[tier] IN
              TierLoop(by_tier, i + 1,
                  [cumulative |-> cumulative_endpoints,
                   files |-> [acc.files EXCEPT ![tier] =
                                generate_markdown(tier, cumulative_endpoints)],
                   console |-> Append(acc.console,
                                [tier |-> tier, generated |-> TRUE,
                                 count |-> Len(cumulative_endpoints)])])
         ELSE TierLoop(by_tier, i + 1,
                  [acc EXCEPT !.console =
                      Append(@, [tier |-> tier, generated |-> FALSE, count |-> 0])])

\* Line 197 with the cumulative counts summed.
RECURSIVE SumOfCumulative(_, _)
SumOfCumulative(by_tier, i) ==
    IF i > Len(tier_hierarchy) THEN 0
    ELSE LET RECURSIVE Upto(_)
             Upto(j) == IF j = 0 THEN 0 ELSE Len(by_tier[tier_hierarchy[j]]) + Upto(j - 1)
         IN  (IF by_tier[tier_hierarchy[i]] # <<>> THEN Upto(i) ELSE 0)
             + SumOfCumulative(by_tier, i + 1)

\* Line 197: sum(len(endpoints) for endpoints in endpoints_by_tier.values())
RECURSIVE SumOfLengths(_, _)
SumOfLengths(by_tier, i) ==
    IF i > Len(tier_hierarchy) THEN 0
    ELSE Len(by_tier[tier_hierarchy[i]]) + SumOfLengths(by_tier, i + 1)

\* The path items of the documents given to main: a mapping with or without
\* a tier of its own and with one of four layouts of operations, and a null
\* entry.
Absent == [present |-> FALSE, op |-> NoOp]

Present(has, tier) == [present |-> TRUE, op |-> [kind |-> "dict", has |-> has, tier |-> tier]]

Layouts ==
    { <<Absent, Absent>>,
      <<Present(FALSE, NoTier), Absent>>,
      <<Present(TRUE, "value"), Absent>>,
      <<Present(TRUE, "standard"), Present(FALSE, NoTier)>> }

DocItem(ht, get, post) ==
    DictItem(ht,
             { m \in {"get", "post"} : IF m = "get" THEN get.present ELSE post.present },
             [m \in {"get", "post"} |-> IF m = "get" THEN get.op ELSE post.op])

DocItems ==
    { DocItem(ht, layout[1], layout[2]) : ht \in PathTiers, layout \in Layouts }
    \cup { MalformedItem("null", FALSE, {}) }

\* The values of --tiers: the default and a shorter list.
TierArgs == { tier_hierarchy, <<"free">> }

NoFiles == [tier \in Tiers |-> NoFile]

NoEndpoints == [tier \in Tiers |-> <<>>]

MainIdle ==
    /\ pc_main = "idle"
    /\ yaml_spec = Document("no paths key", NoPath, OtherItem)
    /\ tiers_arg = <<>>
    /\ endpoints_by_tier = NoEndpoints
    /\ files = NoFiles
    /\ console = <<>>
    /\ total = 0

----------------------------------------------------------------------------
(* src/server.py: main and the configuration lines of create_mcp_server.   *)
(* A timeout is a number of seconds; the value of an environment variable  *)
(* is a string.                                                            *)

\* args.base_url when --base-url is not given; os.getenv of an unset variable.
None == "None"

\* The default of --timeout and of the `timeout` parameter (30.0).
DefaultTimeout == 30

\* The second argument of os.getenv("THETADATA_TIMEOUT", "30.0").
DefaultTimeoutText == "30.0"

\* The second argument of os.getenv("THETADATA_BASE_URL", ...).
DefaultBaseUrl == "http://127.0.0.1:25503/v3"

BaseUrlFlags == {None, "", "http://flag:25503/v3"}

\* A float, the None of an option that was not given, a raised ValueError.
Seconds(n) == [kind |-> "float", val |-> n]
NoSeconds == [kind |-> "None", val |-> 0]
ValueError == [kind |-> "ValueError", val |-> 0]

TimeoutFlags == {NoSeconds, Seconds(0), Seconds(5), Seconds(DefaultTimeout)}

BaseUrlEnv == {None, "", "http://env:25503/v3"}

TimeoutEnv == {None, "10", "soon"}

Transports == {"stdio", "sse"}

\* os.getenv(name, default): the default only when the variable is unset.
getenv(env, name, default) == IF env[name] = None THEN default ELSE env[name]

\* float(text): the number a numeric text denotes, ValueError otherwise.
float(text) ==
    CASE text = "30.0" -> Seconds(30)
      [] text = "10" -> Seconds(10)
      [] OTHER -> ValueError

\* Truth value of a string or None, and of a float.
TruthyText(v) == v # None /\ v # ""
TruthyNumber(v) == v.val # 0

\* argparse: --base-url has no default (None), --timeout defaults to 30.0.
parse_args(flags) ==
    [base_url |-> flags.base_url,
     timeout |-> IF flags.timeout = NoSeconds THEN Seconds(DefaultTimeout)
                 ELSE flags.timeout]

\* Lines 48-49 and 52-55: the configuration of the client.
create_mcp_server(base_url, timeout, env) ==
    LET url == IF TruthyText(base_url) THEN base_url
               ELSE getenv(env, "THETADATA_BASE_URL", DefaultBaseUrl)
        tmo == IF TruthyNumber(timeout) THEN timeout
               ELSE float(getenv(env, "THETADATA_TIMEOUT", DefaultTimeoutText))
    IN  [base_url |-> url, timeout |-> tmo]

NoClient == [base_url |-> None, timeout |-> NoSeconds]

NoFlags == [base_url |-> None, timeout |-> NoSeconds]

NoEnviron == [THETADATA_BASE_URL |-> None, THETADATA_TIMEOUT |-> None]

ServerIdle ==
    /\ pc_server = "idle"
    /\ argv = NoFlags
    /\ environ = NoEnviron
    /\ client = NoClient
    /\ transport_arg = None

TierIdle ==
    /\ openapi_spec = Document("no paths key", NoPath, OtherItem)
    /\ route_path = NoPath
    /\ tier_out = NotCalled
    /\ component = NoComponent

TransportIdle ==
    /\ pc = "idle"
    /\ now = 0
    /\ request = NoRequest
    /\ params = <<>>
    /\ modified = FALSE
    /\ dispatched = NoRequest
    /\ response = NoResponse
    /\ fault = "none"
    /\ returned = NothingYet

InitTransport ==
    /\ pc = "start"
    /\ now \in Clock
    /\ request \in Requests
    /\ params = <<>>
    /\ modified = FALSE
    /\ dispatched = NoRequest
    /\ response = NoResponse
    /\ fault = "none"
    /\ returned = NothingYet
    /\ TierIdle
    /\ MainIdle
    /\ ServerIdle

\* Lines 65-119: the request phase, up to the await on the wrapped transport.
RequestPhase ==
    /\ pc = "start"
    /\ LET out == RewriteRequest(request, now) IN
         /\ dispatched' = out.request
         /\ params' = out.params
         /\ modified' = out.modified
    /\ pc' = "awaiting"
    /\ UNCHANGED <<now, request, response, fault, returned>>
    /\ UNCHANGED <<tierVars, mainVars, serverVars>>

\* Line 119: the wrapped transport answers.
TransportResponds(resp, flt) ==
    /\ pc = "awaiting"
    /\ response' = resp
    /\ fault' = flt
    /\ pc' = "received"
    /\ UNCHANGED <<now, request, params, modified, dispatched, returned>>
    /\ UNCHANGED <<tierVars, mainVars, serverVars>>

\* Line 119: the wrapped transport raises; the exception reaches the caller.
TransportRaises ==
    /\ pc = "awaiting"
    /\ returned' = Propagated
    /\ pc' = "failed"
    /\ UNCHANGED <<now, request, params, modified, dispatched, response, fault>>
    /\ UNCHANGED <<tierVars, mainVars, serverVars>>

\* Lines 121-140: the response phase.
ResponsePhase ==
    /\ pc = "received"
    /\ returned' = Unwrap(response, fault)
    /\ pc' = "returned"
    /\ UNCHANGED <<now, request, params, modified, dispatched, response, fault>>
    /\ UNCHANGED <<tierVars, mainVars, serverVars>>

NextTransport ==
    \/ RequestPhase
    \/ \E resp \in Responses, flt \in Faults : TransportResponds(resp, flt)
    \/ TransportRaises
    \/ ResponsePhase

SpecTransport == InitTransport /\ [][NextTransport]_vars

----------------------------------------------------------------------------
(* Calls of the tier extractor. *)

InitTier ==
    /\ \E shape \in DocShapes, p \in PathNames, ms \in MethodSets :
          \/ \E ht \in PathTiers, g \in [ms -> Operations] :
                openapi_spec = Document(shape, p, DictItem(ht, ms, g))
          \/ \E k \in {"null", "str", "list"}, h \in BOOLEAN :
                openapi_spec = Document(shape, p, MalformedItem(k, h, ms))
    /\ route_path = NoPath
    /\ tier_out = NotCalled
    /\ component = NoComponent
    /\ TransportIdle
    /\ MainIdle
    /\ ServerIdle

\* One call extract_tier_from_spec(openapi_spec, path).  The function reads
\* its arguments only, so a behaviour follows one call on one document.
ExtractTier(path) ==
    /\ tier_out = NotCalled
    /\ route_path' = path
    /\ tier_out' = extract_tier_from_spec(openapi_spec, path)
    /\ UNCHANGED <<openapi_spec, component>>
    /\ UNCHANGED <<transportVars, mainVars, serverVars>>

\* src/server.py lines 286-317: customize_components for a route with the
\* given path and a component as the framework built it.  A TypeError of the
\* extractor leaves the handler before the component is touched.
customize_components(path, comp) ==
    /\ tier_out = NotCalled
    /\ route_path' = path
    /\ LET tier == extract_tier_from_spec(openapi_spec, path) IN
         /\ tier_out' = tier
         /\ component' = IF tier = Raised THEN comp ELSE Customized(comp, tier)
    /\ UNCHANGED openapi_spec
    /\ UNCHANGED <<transportVars, mainVars, serverVars>>

NextTier ==
    \/ \E path \in PathNames : ExtractTier(path)
    \/ \E path \in PathNames, comp \in Components : customize_components(path, comp)

SpecTier == InitTier /\ [][NextTier]_vars

----------------------------------------------------------------------------
(* One run of the documentation generator. *)

InitMain ==
    /\ pc_main = "start"
    /\ \E present \in SUBSET DocPaths :
         /\ Cardinality(present) <= MaxDocPaths
         /\ \E items \in [present -> DocItems] :
              yaml_spec = [has_paths |-> TRUE, paths |-> items]
    /\ tiers_arg = <<>>
    /\ endpoints_by_tier = NoEndpoints
    /\ files = NoFiles
    /\ console = <<>>
    /\ total = 0
    /\ TierIdle
    /\ TransportIdle
    /\ ServerIdle

\* Lines 145-198: main, run with --tiers tiers on an empty output directory.
main(tiers) ==
    /\ pc_main = "start"
    /\ tiers_arg' = tiers
    /\ LET by_tier == extract_endpoints_by_tier(yaml_spec)
           out == TierLoop(by_tier, 1,
                           [cumulative |-> <<>>, files |-> NoFiles, console |-> <<>>])
       IN  /\ endpoints_by_tier' = by_tier
           /\ files' = out.files
           /\ console' = out.console
           /\ total' = SumOfLengths(by_tier, 1)
    /\ pc_main' = "done"
    /\ UNCHANGED yaml_spec
    /\ UNCHANGED <<tierVars, transportVars, serverVars>>

NextMain == \E tiers \in TierArgs : main(tiers)

SpecMain == InitMain /\ [][NextMain]_vars

----------------------------------------------------------------------------
(* One start of the server. *)

InitServer ==
    /\ pc_server = "start"
    /\ argv \in [base_url : BaseUrlFlags, timeout : TimeoutFlags]
    /\ environ \in [THETADATA_BASE_URL : BaseUrlEnv, THETADATA_TIMEOUT : TimeoutEnv]
    /\ client = NoClient
    /\ transport_arg = None
    /\ TierIdle
    /\ TransportIdle
    /\ MainIdle

\* Lines 334-363: main of the server, started with --transport transport.
\* A ValueError of float() leaves main before the client exists.
server_main(transport) ==
    /\ pc_server = "start"
    /\ LET args == parse_args(argv)
           config == create_mcp_server(args.base_url, args.timeout, environ)
       IN  IF config.timeout = ValueError
           THEN /\ pc_server' = "failed"
                /\ UNCHANGED <<client, transport_arg>>
           ELSE /\ pc_server' = "running"
                /\ client' = config
                /\ transport_arg' = transport
    /\ UNCHANGED <<argv, environ>>
    /\ UNCHANGED <<tierVars, transportVars, mainVars>>

NextServer == \E transport \in Transports : server_main(transport)

SpecServer == InitServer /\ [][NextServer]_vars

----------------------------------------------------------------------------
(* Properties of the tier extractor, checked under SpecTier. *)

\* The scan order the contract names.
ContractOrder == <<"get", "post", "put", "delete", "patch">>

\* A value carries a tier annotation when it is a mapping with the key.
Carries(v) == v.kind = "dict" /\ v.has

\* Every path item is a mapping and so is every operation under a method key
\* (the specification document of the data model).
WellFormedDocument(spec) ==
    \A p \in DOMAIN spec.paths :
        /\ spec.paths[p].kind = "dict"
        /\ \A m \in spec.paths[p].members : spec.paths[p].ops[m].kind = "dict"

\* The result the contract prescribes.
ContractTier(spec, path) ==
    IF ~spec.has_paths \/ path \notin DOMAIN spec.paths THEN ReturnedNone
    ELSE LET item == spec.paths[path]
             carrying == { i \in DOMAIN ContractOrder :
                            /\ ContractOrder[i] \in item.members
                            /\ Carries(item.ops[ContractOrder[i]]) }
         IN  IF Carries(item) THEN Returned(item.tier)
             ELSE IF carrying = {} THEN ReturnedNone
             ELSE LET first == CHOOSE i \in carrying : \A j \in carrying : i <= j
                  IN  Returned(item.ops[ContractOrder[first]].tier)

\* C1: every call of extract_tier_from_spec that returns, returns None for a
\* path that is no key of paths, else the path item's own tier when it carries
\* one (whatever its operations declare), else the tier of the first method in
\* the order get, post, put, delete, patch that is present and carries one,
\* else None; and on a document whose path items and operations are mappings
\* every call returns.
C1_LookupOrder ==
    tier_out.kind # "idle" =>
        /\ tier_out.kind # "TypeError" => tier_out = ContractTier(openapi_spec, route_path)
        /\ WellFormedDocument(openapi_spec) => tier_out.kind # "TypeError"

\* C1 witness: a path item with its own tier and an operation declaring a
\* different one; the path-level tier was returned.
C1_Witness ==
    /\ tier_out.kind = "value"
    /\ route_path \in DOMAIN openapi_spec.paths
    /\ LET item == openapi_spec.paths[route_path] IN
         /\ Carries(item)
         /\ tier_out.val = item.tier
         /\ \E m \in item.members : Carries(item.ops[m]) /\ item.ops[m].tier # item.tier

\* C2: extract_tier_from_spec never raises; when the entry under the path is
\* not a mapping (null, a string, a list) the result is None.
C2_MalformedIsAbsent ==
    /\ tier_out.kind # "TypeError"
    /\ ( /\ tier_out.kind # "idle"
         /\ route_path \in DOMAIN openapi_spec.paths
         /\ openapi_spec.paths[route_path].kind # "dict" )
        => tier_out = ReturnedNone

----------------------------------------------------------------------------
(* Properties of the request phase, checked under SpecTransport. *)

\* The decoded values a query string gives to a key, in order.
RECURSIVE ValuesOf(_, _)
ValuesOf(query, key) ==
    IF query = <<>> THEN <<>>
    ELSE (IF Head(query).k = key THEN <<unquote_plus(Head(query).v)>> ELSE <<>>)
         \o ValuesOf(Tail(query), key)

\* The values the handler's mapping holds under a key.
ParamValues(key) ==
    IF \E i \in DOMAIN params : params[i].key = key
    THEN (CHOOSE e \in { params[i] : i \in DOMAIN params } : e.key = key).vals
    ELSE <<>>

\* The request phase has just handed the request to the wrapped transport.
RequestPhaseDone == pc = "awaiting"

\* Yesterday of the system date, as YYYY-MM-DD.
ReferenceDate == <<Days[now - 1]>>

\* C3: after the date normalization the query set holds the reference date
\* (yesterday) under start_date and end_date when the query had neither, the
\* value of start_date under end_date when it had only start_date, the value
\* of end_date under start_date when it had only end_date, and the original
\* values of both when it had both; and when neither key is repeated in the
\* query, the dispatched query carries exactly these values.
C3_DateNormalization ==
    RequestPhaseDone =>
        LET s == ValuesOf(request.query, "start_date")
            e == ValuesOf(request.query, "end_date")
            want_s == IF s # <<>> THEN s ELSE IF e # <<>> THEN e ELSE <<ReferenceDate>>
            want_e == IF e # <<>> THEN e ELSE IF s # <<>> THEN s ELSE <<ReferenceDate>>
        IN  /\ ParamValues("start_date") = want_s
            /\ ParamValues("end_date") = want_e
            /\ (Len(s) <= 1 /\ Len(e) <= 1) =>
                  /\ ValuesOf(dispatched.query, "start_date") = want_s
                  /\ ValuesOf(dispatched.query, "end_date") = want_e

\* C3 witness: a query with only start_date was dispatched with end_date set
\* to the same value.
C3_Witness ==
    /\ RequestPhaseDone
    /\ Len(ValuesOf(request.query, "start_date")) = 1
    /\ ValuesOf(request.query, "end_date") = <<>>
    /\ ValuesOf(dispatched.query, "end_date") = ValuesOf(request.query, "start_date")

\* C4: the dispatched request carries format=json_new when the query has no
\* format and when its format is the legacy token json, and carries the
\* query's format unchanged when it is anything else.
C4_FormatNormalization ==
    RequestPhaseDone =>
        LET f == ValuesOf(request.query, "format")
            w == ValuesOf(dispatched.query, "format")
        IN  /\ f = <<>> => w = << <<"json_new">> >>
            /\ f = << <<"json">> >> => w = << <<"json_new">> >>
            /\ (f # <<>> /\ f # << <<"json">> >>) => w = f

\* The request is already conformant: both dates and a format that is not
\* the legacy token.
Conformant(query) ==
    /\ ValuesOf(query, "start_date") # <<>>
    /\ ValuesOf(query, "end_date") # <<>>
    /\ ValuesOf(query, "format") # <<>>
    /\ ValuesOf(query, "format") # << <<"json">> >>

\* C5: the rewrite applied to the request it produced leaves that request as
\* it is, on any day; and a conformant request is dispatched as the object
\* it came in, with nothing rebuilt.
C5_Idempotent ==
    RequestPhaseDone =>
        /\ \A today \in Clock :
             LET again == RewriteRequest(dispatched, today) IN
               ~again.modified /\ again.request = dispatched
        /\ Conformant(request.query) => (~modified /\ dispatched = request)

\* C5 witness: the first application rebuilt the request, and a second one
\* hands the rebuilt request on as it is.
C5_Witness ==
    /\ RequestPhaseDone
    /\ modified
    /\ dispatched # request
    /\ RewriteRequest(dispatched, now).request = dispatched

----------------------------------------------------------------------------
(* Properties of the response phase, checked under SpecTransport. *)

\* The body parses to a mapping whose only key is "response".
ParsesToEnvelope(body) ==
    body.valid /\ body.data.type = "dict" /\ body.data.keys = {"response"}

\* C6: a response with a JSON content-type whose body parses to a mapping
\* with the single key "response" reaches the caller, when no step of the
\* unwrap raises, as a response with the JSON encoding of that key's value as
\* its body and the original status code and headers; a response with another
\* content-type, or whose body parses to any other shape, reaches the caller
\* as the original response.
C6_Unwrap ==
    pc = "returned" =>
        /\ ( /\ response.headers = "application/json"
             /\ ParsesToEnvelope(response.content)
             /\ fault = "none" )
            => returned = [object |-> "new",
                           status_code |-> response.status_code,
                           headers |-> response.headers,
                           content |-> JsonText("default",
                                                SubValue(response.content.data.sub))]
        /\ ( \/ response.headers # "application/json"
             \/ (response.content.valid /\ ~ParsesToEnvelope(response.content)) )
            => returned = Original(response)

\* C6 witness: an enveloped 404 JSON response was unwrapped.
C6_Witness ==
    /\ pc = "returned"
    /\ returned.object = "new"
    /\ returned.status_code = 404
    /\ returned.content.data = JsonDict({"a"}, NoSub)

\* A step of the unwrap raised: the body could not be read, it is no JSON, or
\* the new response could not be built.
UnwrapRaised ==
    /\ response.headers = "application/json"
    /\ \/ fault = "aread"
       \/ ~response.content.valid
       \/ fault = "Response" /\ ParsesToEnvelope(response.content)

\* C7: the response phase never fails the call: when a step of the unwrap
\* raises the caller receives the original response, and an exception reaches
\* the caller only from the wrapped transport.
C7_UnwrapNeverFails ==
    /\ (pc = "returned" /\ UnwrapRaised) => returned = Original(response)
    /\ returned.object = "exception" => pc = "failed"

\* C7 witness: the body was no JSON and the original response came back.
C7_Witness ==
    /\ pc = "returned"
    /\ response.headers = "application/json"
    /\ ~response.content.valid
    /\ returned = Original(response)

----------------------------------------------------------------------------
(* Properties of the documentation generator, checked under SpecMain. *)

\* free < value < standard < professional
AscendingTiers == <<"free", "value", "standard", "professional">>

Rank(tier) == CHOOSE i \in DOMAIN AscendingTiers : AscendingTiers[i] = tier

\* The operations of a path item that are mappings.
MappingOps(item) == { m \in item.members : item.ops[m].kind = "dict" }

\* The endpoints of a specification with their effective tier: the tier of
\* the operation if it has one, else the tier of the path; a path with a tier
\* and no operation is one endpoint.
EndpointsOf(spec) ==
    LET mappings == { p \in DOMAIN spec.paths : spec.paths[p].kind = "dict" }
        declared(p) ==
            { [path |-> p, method |-> Upper(m), summary |-> DisplayName(m),
               tier |-> IF spec.paths[p].ops[m].has THEN spec.paths[p].ops[m].tier
                        ELSE spec.paths[p].tier] : m \in MappingOps(spec.paths[p]) }
        bare == { [path |-> p, method |-> "GET", summary |-> "", tier |-> spec.paths[p].tier] :
                    p \in { q \in mappings : MappingOps(spec.paths[q]) = {} } }
    IN  { e \in UNION { declared(p) : p \in mappings } \cup bare : e.tier \in Tiers }

KnownCategory(path) ==
    Capitalize(FirstSegment(path)) \in {"Stock", "Option", "Index", "Calendar"}

\* The bullets of a document.
Listed(file) ==
    UNION { { file.sections[i].bullets[j] : j \in DOMAIN file.sections[i].bullets } :
            i \in DOMAIN file.sections }

RECURSIVE BulletCount(_)
BulletCount(sections) ==
    IF sections = <<>> THEN 0
    ELSE Len(Head(sections).bullets) + BulletCount(Tail(sections))

BulletOf(e) == [path |-> e.path, summary |-> e.summary]

\* C8: every document written lists, among the endpoints of the categories
\* Stock, Option, Index and Calendar, exactly those whose effective tier is
\* lower than or equal to the document's tier, each once.
C8_Cumulative ==
    pc_main = "done" =>
        \A T \in Tiers :
            files[T] # NoFile =>
                LET due == { e \in EndpointsOf(yaml_spec) :
                               Rank(e.tier) <= Rank(T) /\ KnownCategory(e.path) }
                IN  /\ Listed(files[T]) = { BulletOf(e) : e \in due }
                    /\ BulletCount(files[T].sections) = Cardinality(due)

\* C8 witness: the document of value lists a free and a value endpoint, and
\* the document of free does not list the value endpoint.
C8_Witness ==
    /\ pc_main = "done"
    /\ \E e1, e2 \in EndpointsOf(yaml_spec) :
         /\ e1.tier = "free" /\ e2.tier = "value"
         /\ BulletOf(e1) \in Listed(files["value"])
         /\ BulletOf(e2) \in Listed(files["value"])
         /\ BulletOf(e1) \in Listed(files["free"])
         /\ BulletOf(e2) \notin Listed(files["free"])

RECURSIVE SumOverTiers(_, _)
SumOverTiers(endpoints, i) ==
    IF i > Len(AscendingTiers) THEN 0
    ELSE Cardinality({ e \in endpoints : e.tier = AscendingTiers[i] })
         + SumOverTiers(endpoints, i + 1)

\* C9: no document lists an endpoint whose category is not Stock, Option,
\* Index or Calendar, and the grand total is the sum over the tiers of the
\* number of endpoints of that tier, those endpoints included.
C9_FilteredButCounted ==
    pc_main = "done" =>
        /\ \A T \in Tiers : \A b \in Listed(files[T]) : KnownCategory(b.path)
        /\ total = SumOverTiers(EndpointsOf(yaml_spec), 1)

\* C9 witness: an endpoint of another category had a valid tier, a document
\* was written with another endpoint in it, and the total counts both.
C9_Witness ==
    /\ pc_main = "done"
    /\ \E e \in EndpointsOf(yaml_spec) : ~KnownCategory(e.path)
    /\ \E T \in Tiers : Listed(files[T]) # {}
    /\ total > BulletCount(files["professional"].sections)
    /\ files["professional"] # NoFile

\* C10: a document is written only for the tiers listed in --tiers.
C10_OnlyListedTiers ==
    pc_main = "done" =>
        \A T \in Tiers :
            files[T] # NoFile => \E i \in DOMAIN tiers_arg : tiers_arg[i] = T

----------------------------------------------------------------------------
(* Properties of the start-up configuration, checked under SpecServer. *)

\* The value the precedence prescribes: the option when given, else the
\* environment variable when set, else the default.
PrecedenceBaseUrl ==
    IF argv.base_url # None THEN argv.base_url
    ELSE IF environ.THETADATA_BASE_URL # None THEN environ.THETADATA_BASE_URL
    ELSE DefaultBaseUrl

PrecedenceTimeout ==
    IF argv.timeout # NoSeconds THEN argv.timeout
    ELSE IF environ.THETADATA_TIMEOUT # None THEN float(environ.THETADATA_TIMEOUT)
    ELSE Seconds(DefaultTimeout)

\* C11: once the server runs, the client's base URL and timeout are each the
\* command-line option when it was given, else the environment variable when
\* it is set, else the default; started without --timeout and with a numeric
\* THETADATA_TIMEOUT, the client's timeout is the variable's value.
C11_ConfigPrecedence ==
    pc_server = "running" =>
        /\ client.base_url = PrecedenceBaseUrl
        /\ PrecedenceTimeout # ValueError => client.timeout = PrecedenceTimeout

----------------------------------------------------------------------------
(* Properties of the tier tag, checked under SpecTier. *)

\* customize_components ran to its end on the component.
Tagged == component # NoComponent /\ tier_out # Raised

\* C12: after customize_components, the tag added to the component is
\* "tier:" followed by t when the extractor returned a tier t of free, value,
\* standard, professional, and the literal "tier:unknown" when it returned
\* None; so for a path that is no key of the specification's paths the tag is
\* "tier:unknown".  No other tag is added.
C12_TierTag ==
    Tagged =>
        /\ (tier_out.kind = "value" /\ tier_out.val \in Tiers)
              => component.tags = {<<"tier:", tier_out.val>>}
        /\ tier_out = ReturnedNone => component.tags = {<<"tier:", "unknown">>}
        /\ route_path \notin DOMAIN openapi_spec.paths
              => component.tags = {<<"tier:", "unknown">>}

\* C12 witness: a component customised for a path that is absent from a
\* specification with other paths carries the tag tier:unknown.
C12_Witness ==
    /\ Tagged
    /\ DOMAIN openapi_spec.paths # {}
    /\ route_path \notin DOMAIN openapi_spec.paths
    /\ component.tags = {<<"tier:", "unknown">>}

----------------------------------------------------------------------------
(* The frame of the request rewrite, checked under SpecTransport. *)

\* The query keys the rewrite is not about.
OtherKeys == QueryKeys \ {"start_date", "end_date", "format"}

\* C13: the dispatched request has the method, the path and the body of the
\* original, and under every query key other than start_date, end_date and
\* format it carries the values of the original query, all of them and in
\* order, also when the key is repeated.
C13_Frame ==
    RequestPhaseDone =>
        /\ dispatched.method = request.method
        /\ dispatched.path = request.path
        /\ dispatched.content = request.content
        /\ \A key \in OtherKeys :
             ValuesOf(dispatched.query, key) = ValuesOf(request.query, key)

====
